---- MODULE Spec2Model ----
(***************************************************************************)
(* Lost & Found backend (src/server.js): the item-reporting pipeline.      *)
(*                                                                         *)
(*   POST   /api/items      upload.single("image") then the async handler  *)
(*   GET    /api/items      Item.find().sort({ reported_at: -1 })          *)
(*   DELETE /api/items/:id  Item.findByIdAndDelete(id)                     *)
(*                                                                         *)
(* Requests of several clients interleave at the I/O suspension points of  *)
(* the event loop: the multer disk write, the unlink multer does when a    *)
(* request is aborted, and the awaited database call.                      *)
(***************************************************************************)
EXTENDS Integers, Sequences, FiniteSets, TLC

\* ---------------------------------------------------------------- bounds
NumClients == 2
MaxClock == 1
MaxPosts == 2

Clients == 1..NumClients
Times == 0..MaxClock

\* ------------------------------------------------------------ input sets
\* Uploaded byte strings, and the states a path of the upload directory has.
Contents == {"bytesA", "bytesB"}
Absent == "absent"
Partial == "partial"

Exts == {".png", ".jpg"}

\* req.body of a multipart submission: each text field is absent
\* (undefined), empty or some text; no field is required.
Bodies ==
  { [item_name |-> "text", description |-> "", location |-> "text",
     contact_number |-> "undefined", type |-> "text"],
    [item_name |-> "undefined", description |-> "undefined",
     location |-> "undefined", contact_number |-> "undefined",
     type |-> "undefined"] }
NoBody == [item_name |-> "undefined", description |-> "undefined",
           location |-> "undefined", contact_number |-> "undefined",
           type |-> "undefined"]

\* The file part of a submission: <<>> (none) or <<[bytes, ext]>>.
Files == {<<>>} \cup {<<[bytes |-> b, ext |-> e]>> : b \in Contents, e \in Exts}

UploadFiles == {<<>>, <<[bytes |-> "bytesA", ext |-> ".png"]>>}

\* What goes wrong while multer handles the request:
\*   "write"  the disk write of the image fails (disk full, permissions)
\*   "extra"  a further, unexpected file part follows the image, so multer
\*            aborts the request after the image was stored
Faults == {"none", "write", "extra"}

\* ------------------------------------------------------------- ObjectIds
\* An ObjectId holds the time of its generation and a per-process counter
\* that is incremented at every generation; the counter is what tells two
\* ids apart, and an id is written here as its counter value.  0 is the id
\* of no document.
ObjectIds == 0..MaxPosts

NewObjectIdByTime(t, n) == t

\* The _id of the n-th document constructed, at time t.
NewObjectId(t, n) == n

\* The :id path parameter: a string that has the shape of an ObjectId
\* ("hex24", then oid is the id it spells) or any other string.
WellFormed == {[shape |-> "hex24", oid |-> <<o>>] : o \in ObjectIds}
Malformed == {[shape |-> "other", oid |-> <<>>]}
IdParams == WellFormed \cup Malformed

CastObjectIdLoose(p) == IF p.shape = "hex24" THEN p.oid ELSE <<0>>

\* Mongoose casts the filter's _id to an ObjectId; a string of another shape
\* raises a CastError (<<>> here), which rejects the awaited promise.
CastObjectId(p) == IF p.shape = "hex24" THEN p.oid ELSE <<>>

\* ----------------------------------------------------------------- state
VARIABLES
  store,            \* the Item collection, in natural (insertion) order
  files,            \* the upload directory: stored name -> bytes
  now,              \* Date.now()
  objectIdCounter,  \* the ObjectId generator's counter
  req,              \* per client: the POST it has in flight
  exchange,         \* the latest completed request and its response
  deleted,          \* history: the ids DELETE has removed
  submitted         \* history: the number of submissions so far

vars == <<store, files, now, objectIdCounter, req, exchange, deleted, submitted>>

\* ------------------------------------------------------------- filenames
\* storage.filename: `${Date.now()}${path.extname(file.originalname)}`
Filename(t, ext) == [t |-> t, ext |-> ext]

Names == {Filename(t, e) : t \in Times, e \in Exts}

BaseUrl == "https://lost-found-backend-lrjz.onrender.com"

ImageUrlAlways(reqFile) ==
  IF reqFile = <<>> THEN <<BaseUrl, "uploads", [t |-> 0, ext |-> "undefined"]>>
  ELSE <<BaseUrl, "uploads", reqFile[1]>>

\* imageUrl: req.file ? `${baseUrl}/uploads/${req.file.filename}` : null
\* (null is <<>>).
ImageUrl(reqFile) ==
  IF reqFile # <<>> THEN <<BaseUrl, "uploads", reqFile[1]>> ELSE <<>>

\* express.static(uploadDir) mounted at /uploads: the bytes a URL serves.
Deref(url) ==
  IF url # <<>> /\ url[2] = "uploads" /\ url[3] \in DOMAIN files
  THEN files[url[3]] ELSE Absent

\* --------------------------------------------------------------- sorting
BeforeAsc(a, b) == a.reported_at <= b.reported_at

\* sort({ reported_at: -1 }): a may precede b.
Before(a, b) == a.reported_at >= b.reported_at

RECURSIVE InsertSorted(_, _)
InsertSorted(x, s) ==
  IF s = <<>> THEN <<x>>
  ELSE IF Before(Head(s), x) THEN <<Head(s)>> \o InsertSorted(x, Tail(s))
  ELSE <<x>> \o s

RECURSIVE FindSorted(_)
\* Item.find().sort({ reported_at: -1 }) over the collection s.
FindSorted(s) ==
  IF s = <<>> THEN <<>>
  ELSE InsertSorted(s[Len(s)], FindSorted(SubSeq(s, 1, Len(s) - 1)))

\* -------------------------------------------------------------- deletion
RemoveAt(s, i) == SubSeq(s, 1, i - 1) \o SubSeq(s, i + 1, Len(s))

Matching(s, oid) == {i \in 1..Len(s) : s[i]._id = oid}

FindFirstAndDelete(s, oid) ==
  IF s = <<>> THEN s
  ELSE IF Matching(s, oid) # {}
       THEN RemoveAt(s, CHOOSE i \in Matching(s, oid) :
                          \A j \in Matching(s, oid) : i <= j)
       ELSE RemoveAt(s, 1)

FindByReportedAtAndDelete(s, oid) ==
  SelectSeq(s, LAMBDA it : \A i \in Matching(s, oid) :
                             it.reported_at # s[i].reported_at)

\* Item.findByIdAndDelete(id) on the collection s: the first document whose
\* _id is oid is removed; none matching removes nothing.
FindByIdAndDelete(s, oid) ==
  IF Matching(s, oid) = {} THEN s
  ELSE RemoveAt(s, CHOOSE i \in Matching(s, oid) :
                     \A j \in Matching(s, oid) : i <= j)

\* ------------------------------------------------------------- responses
Response(status, ctype, msg, item, list) ==
  [status |-> status, ctype |-> ctype, msg |-> msg, item |-> item, list |-> list]

\* What the latest answered request was: its method, the file part and the
\* fault of a submission, the shape of a DELETE's :id.
Request(op, file, fault, shape) ==
  [op |-> op, file |-> file, fault |-> fault, shape |-> shape]

NoErr == [name |-> "none", body |-> FALSE]

\* No route or middleware is left: Express answers 404 with an HTML page
\* when no error is pending, 500 with an HTML page when one is.
FinalHandler(err) ==
  IF err = NoErr
  THEN Response(404, "html", "Cannot POST /api/items", <<>>, <<>>)
  ELSE Response(500, "html", "Internal Server Error", <<>>, <<>>)

\* app.use((err, req, res, next) => ...): 400 for a body-parser SyntaxError,
\* otherwise next() with no argument, which drops the error.
ErrorMiddleware(err) ==
  IF err.name = "SyntaxError" /\ err.body
  THEN Response(400, "json", "Invalid JSON format", <<>>, <<>>)
  ELSE FinalHandler(NoErr)

\* ------------------------------------------------------------------ init
Idle == [pc |-> "idle", body |-> NoBody, file |-> <<>>, fault |-> "none",
         filename |-> <<>>, newItem |-> <<>>]
Done == [Idle EXCEPT !.pc = "done"]

Init ==
  /\ store = <<>>
  /\ files = [n \in Names |-> Absent]
  /\ now = 0
  /\ objectIdCounter = 0
  /\ req = [c \in Clients |-> Idle]
  /\ exchange = [req |-> Request("none", <<>>, "none", "none"),
                 res |-> Response(0, "none", "", <<>>, <<>>)]
  /\ deleted = {}
  /\ submitted = 0

Answer(request, response) ==
  exchange' = [req |-> request, res |-> response]

PostRequest(c) == Request("post", req[c].file, req[c].fault, "none")

\* --------------------------------------------------------------- actions
Tick ==
  /\ now < MaxClock
  /\ now' = now + 1
  /\ UNCHANGED <<store, files, objectIdCounter, req, exchange, deleted, submitted>>

\* A multipart POST /api/items arrives.  Requests are anonymous: a new one
\* takes the first client that has none in flight.
Free(c) == req[c].pc \in {"idle", "done"}

StartPost(c, body, file, fault) ==
  /\ Free(c)
  /\ \A d \in Clients : d < c => ~Free(d)
  /\ submitted < MaxPosts
  /\ submitted' = submitted + 1
  /\ fault # "none" => file # <<>>
  /\ req' = [req EXCEPT ![c] = [pc |-> "multer", body |-> body, file |-> file,
                                fault |-> fault, filename |-> <<>>,
                                newItem |-> <<>>]]
  /\ UNCHANGED <<store, files, now, objectIdCounter, exchange, deleted>>

MulterNextAlways(failed) == "handler"

\* upload.single("image") ends with next(err) on a failure, which skips the
\* route handler, and with next() otherwise.
MulterNext(failed) == IF failed THEN "error" ELSE "handler"

\* Where the request goes when multer is done with it: into the route
\* handler, or through the error-handling middleware to its response.
MulterDone(c, failed, filename) ==
  IF MulterNext(failed) = "handler"
  THEN /\ req' = [req EXCEPT ![c].pc = "handler", ![c].filename = filename]
       /\ exchange' = exchange
  ELSE /\ req' = [req EXCEPT ![c] = Done]
       /\ Answer(PostRequest(c),
                 ErrorMiddleware([name |-> "MulterError", body |-> FALSE]))

\* upload.single("image") handles the parts of the request.  A file is
\* written to uploadDir under the name storage.filename gives it at that
\* moment; the write stream opens the path for writing, so bytes already
\* stored under that name are replaced.  A failed write leaves the path as it
\* was (the open failed) or with partial content.  When a further file part
\* follows the image, the request is aborted once the image is stored.
MulterSingle(c) ==
  /\ req[c].pc = "multer"
  /\ IF req[c].file = <<>>
     THEN /\ files' = files
          /\ MulterDone(c, FALSE, <<>>)
     ELSE LET name == Filename(now, req[c].file[1].ext) IN
          IF req[c].fault = "write"
          THEN /\ \E out \in {files[name], Partial} :
                    files' = [files EXCEPT ![name] = out]
               /\ MulterDone(c, TRUE, <<>>)
          ELSE /\ files' = [files EXCEPT ![name] = req[c].file[1].bytes]
               /\ IF req[c].fault = "extra"
                  THEN /\ req' = [req EXCEPT ![c].pc = "abort",
                                             ![c].filename = <<name>>]
                       /\ exchange' = exchange
                  ELSE MulterDone(c, FALSE, <<name>>)
  /\ UNCHANGED <<store, now, objectIdCounter, deleted, submitted>>

\* An aborted request: multer unlinks the files it has stored for it, then
\* passes the error on.
MulterRemove(c) ==
  /\ req[c].pc = "abort"
  /\ files' = [files EXCEPT ![req[c].filename[1]] = Absent]
  /\ MulterDone(c, TRUE, <<>>)
  /\ UNCHANGED <<store, now, objectIdCounter, deleted, submitted>>

\* The route handler up to the await: the URL, and new Item({...}), which
\* generates _id and applies the reported_at default.
HandlerConstruct(c) ==
  /\ req[c].pc = "handler"
  /\ objectIdCounter' = objectIdCounter + 1
  /\ req' = [req EXCEPT
               ![c].pc = "saving",
               ![c].newItem =
                 <<[_id |-> NewObjectId(now, objectIdCounter + 1),
                    body |-> req[c].body,
                    image_url |-> ImageUrl(req[c].filename),
                    reported_at |-> now]>>]
  /\ UNCHANGED <<store, files, now, exchange, deleted, submitted>>

\* await newItem.save() settles: 201 with the item, or the catch block.
Save(c, dbOk) ==
  /\ req[c].pc = "saving"
  /\ IF dbOk
     THEN /\ store' = Append(store, req[c].newItem[1])
          /\ Answer(PostRequest(c),
                    Response(201, "json", "Item saved successfully",
                             req[c].newItem, <<>>))
     ELSE /\ store' = store
          /\ Answer(PostRequest(c),
                    Response(500, "json", "Failed to save item", <<>>, <<>>))
  /\ req' = [req EXCEPT ![c] = Done]
  /\ UNCHANGED <<files, now, objectIdCounter, deleted, submitted>>

\* A POST whose JSON body does not parse: express.json() raises a
\* SyntaxError carrying the body.
PostBadJson ==
  /\ Answer(Request("postjson", <<>>, "none", "none"),
            ErrorMiddleware([name |-> "SyntaxError", body |-> TRUE]))
  /\ UNCHANGED <<store, files, now, objectIdCounter, req, deleted, submitted>>

\* GET /api/items
Get(dbOk) ==
  /\ Answer(Request("get", <<>>, "none", "none"),
            IF dbOk THEN Response(200, "json", "", <<>>, FindSorted(store))
            ELSE Response(500, "json", "Failed to fetch items", <<>>, <<>>))
  /\ UNCHANGED <<store, files, now, objectIdCounter, req, deleted, submitted>>

\* DELETE /api/items/:id
Delete(p, dbOk) ==
  /\ LET oid == CastObjectId(p) IN
     IF oid # <<>> /\ dbOk
     THEN /\ store' = FindByIdAndDelete(store, oid[1])
          /\ deleted' = IF Matching(store, oid[1]) # {}
                        THEN deleted \cup {oid[1]} ELSE deleted
          /\ Answer(Request("delete", <<>>, "none", p.shape),
                    Response(200, "json", "Item deleted successfully",
                             <<>>, <<>>))
     ELSE /\ store' = store
          /\ deleted' = deleted
          /\ Answer(Request("delete", <<>>, "none", p.shape),
                    Response(500, "json", "Failed to delete item", <<>>, <<>>))
  /\ UNCHANGED <<files, now, objectIdCounter, req, submitted>>

\* -------------------------------------------------------- specifications
Next ==
  \/ Tick
  \/ \E c \in Clients, body \in Bodies, file \in Files, fault \in Faults :
       StartPost(c, body, file, fault)
  \/ \E c \in Clients : MulterSingle(c)
  \/ \E c \in Clients : MulterRemove(c)
  \/ \E c \in Clients : HandlerConstruct(c)
  \/ \E c \in Clients, dbOk \in BOOLEAN : Save(c, dbOk)
  \/ PostBadJson
  \/ \E dbOk \in BOOLEAN : Get(dbOk)
  \/ \E p \in IdParams, dbOk \in BOOLEAN : Delete(p, dbOk)

Spec == Init /\ [][Next]_vars

\* N clients, one submission each, nothing failing.
StartFirstPost(c, body, file) ==
  /\ req[c].pc = "idle"
  /\ StartPost(c, body, file, "none")

NextCreate ==
  \/ Tick
  \/ \E c \in Clients, body \in Bodies, file \in UploadFiles :
       StartFirstPost(c, body, file)
  \/ \E c \in Clients : MulterSingle(c)
  \/ \E c \in Clients : HandlerConstruct(c)
  \/ \E c \in Clients : Save(c, TRUE)

SpecCreate == Init /\ [][NextCreate]_vars

\* The Item collection: submissions without an image, failing database
\* calls, listings and deletions.
NextItems ==
  \/ Tick
  \/ \E c \in Clients, body \in Bodies : StartPost(c, body, <<>>, "none")
  \/ \E c \in Clients : MulterSingle(c)
  \/ \E c \in Clients : HandlerConstruct(c)
  \/ \E c \in Clients, dbOk \in BOOLEAN : Save(c, dbOk)
  \/ \E dbOk \in BOOLEAN : Get(dbOk)
  \/ \E p \in IdParams, dbOk \in BOOLEAN : Delete(p, dbOk)

SpecItems == Init /\ [][NextItems]_vars

\* The submission pipeline: submissions with or without an image, failing
\* disk writes and failing database calls.
NextUpload ==
  \/ Tick
  \/ \E c \in Clients, body \in Bodies, file \in UploadFiles,
        fault \in {"none", "write"} : StartPost(c, body, file, fault)
  \/ \E c \in Clients : MulterSingle(c)
  \/ \E c \in Clients : HandlerConstruct(c)
  \/ \E c \in Clients, dbOk \in BOOLEAN : Save(c, dbOk)

SpecUpload == Init /\ [][NextUpload]_vars

\* ------------------------------------------------------------ properties
Range(s) == {s[i] : i \in 1..Len(s)}

Count(s, x) == Cardinality({i \in 1..Len(s) : s[i] = x})

Posted == exchange.req.op = "post"
Created == Posted /\ exchange.res.status = 201
Listed == exchange.req.op = "get" /\ exchange.res.status = 200
DeleteAnswered == exchange.req.op = "delete"

DeletedOk == Response(200, "json", "Item deleted successfully", <<>>, <<>>)
DeleteFailed == Response(500, "json", "Failed to delete item", <<>>, <<>>)

\* C1: a successful GET /api/items returns exactly the Items in the store,
\* each once, and no Item of the response is followed by one reported later.
ListingSortedAndComplete ==
  Listed =>
    LET l == exchange.res.list IN
      /\ Len(l) = Len(store)
      /\ \A x \in Range(store) \cup Range(l) : Count(l, x) = Count(store, x)
      /\ \A i \in 1..(Len(l) - 1) : l[i].reported_at >= l[i + 1].reported_at

\* C1 witness: a listing of two Items that the store holds oldest first.
ListingReordered ==
  /\ Listed
  /\ Len(exchange.res.list) >= 2
  /\ store[1].reported_at < store[2].reported_at

\* C2: a DELETE with the id of a stored Item removes that one Item and leaves
\* every other Item as it was; an id once deleted is in no later state of the
\* store and in no later listing.
DeleteRemovesExactlyThatItem ==
  [][ /\ \A p \in WellFormed :
           (Matching(store, p.oid[1]) # {} /\ exchange'.res = DeletedOk
              /\ Delete(p, TRUE)) =>
             /\ Len(store') = Len(store) - 1
             /\ \A x \in Range(store') : x._id # p.oid[1]
             /\ \A x \in Range(store) :
                  x._id # p.oid[1] => Count(store', x) = Count(store, x)
             /\ p.oid[1] \in deleted'
      /\ \A x \in Range(store') : x._id \notin deleted'
      /\ \A x \in Range(exchange'.res.list) : x._id \notin deleted'
    ]_vars

\* C2 witness: an Item was deleted and another one is still stored.
DeletedOneKeptOne ==
  /\ DeleteAnswered
  /\ exchange.res = DeletedOk
  /\ deleted # {}
  /\ store # <<>>

DeleteOfAbsentIdIsNoOp ==
  [][\A p \in WellFormed :
       (exchange'.req.op = "delete" /\ Delete(p, TRUE)) =>
         /\ Matching(store, p.oid[1]) = {} =>
              (exchange'.res = DeletedOk /\ store' = store)
         /\ FindByIdAndDelete(store', p.oid[1]) = store']_vars

\* C4 witness: a well-formed id was answered 200 although nothing has ever
\* been deleted from the non-empty store.
AbsentIdDeleteAnswered ==
  /\ DeleteAnswered
  /\ exchange.req.shape = "hex24"
  /\ exchange.res = DeletedOk
  /\ deleted = {}
  /\ store # <<>>

\* C5: no step of a submission whose image write fails adds an Item, and the
\* submission ends in an error response.
UploadFailureCreatesNoItem ==
  [][\A c \in Clients :
       (req[c].fault = "write" /\ ~Free(c) /\ req'[c] # req[c]) =>
         /\ store' = store
         /\ Free(c)' => exchange'.res.status >= 400]_vars

\* C5 witness: a submission whose write failed has been answered, and left
\* partial content behind.
UploadFailureAnswered ==
  /\ Posted
  /\ exchange.req.fault = "write"
  /\ exchange.res.status >= 400
  /\ \E n \in Names : files[n] = Partial

\* C6 as stated: every failed POST /api/items is answered 500 with the JSON
\* error "Failed to save item".
FailedPostIs500Json ==
  (Posted /\ exchange.res.status # 201) =>
    exchange.res = Response(500, "json", "Failed to save item", <<>>, <<>>)

\* C7: the stored Items have pairwise different ids, and when each of the N
\* clients has completed its one submission the store holds N Items.
ConcurrentCreatesPersistAll ==
  /\ \A i, j \in 1..Len(store) : i # j => store[i]._id # store[j]._id
  /\ (\A c \in Clients : req[c].pc = "done") => Len(store) = NumClients

\* C7 witness: all submissions are done, two of them constructed within the
\* same clock value and saved in the other order.
AllCreatedSameInstant ==
  /\ \A c \in Clients : req[c].pc = "done"
  /\ \E i, j \in 1..Len(store) :
       /\ i < j
       /\ store[i].reported_at = store[j].reported_at
       /\ store[i]._id > store[j]._id

\* C8 as stated: the image_url of a created Item serves the bytes its
\* submission uploaded.
ImageUrlServesUpload ==
  (Created /\ exchange.req.file # <<>>) =>
    Deref(exchange.res.item[1].image_url) = exchange.req.file[1].bytes

\* C9: a 201 carries the Item, which is stored under its id exactly once, and
\* its image_url is set exactly when the submission had a file; no other
\* answer to a POST carries an Item.
CreatedItemReturned ==
  /\ Created =>
       /\ Len(exchange.res.item) = 1
       /\ Cardinality(Matching(store, exchange.res.item[1]._id)) = 1
       /\ Count(store, exchange.res.item[1]) = 1
       /\ exchange.res.item[1].image_url # <<>> <=> exchange.req.file # <<>>
  /\ (Posted /\ ~Created) => exchange.res.item = <<>>

\* C9 witness: a submission without an image, with absent and empty text
\* fields, was answered 201 with an Item that has no image_url.
CreatedWithoutImage ==
  /\ Created
  /\ exchange.req.file = <<>>
  /\ exchange.res.item[1].image_url = <<>>
  /\ exchange.res.item[1].body.description = ""
  /\ exchange.res.item[1].body.contact_number = "undefined"

\* C10 as stated: every stored Item with an image_url names a file that is
\* present in the upload directory.
StoredImagesPresent ==
  \A x \in Range(store) : x.image_url # <<>> => Deref(x.image_url) # Absent

====
